---- MODULE Spec2Model ----
(***************************************************************************)
(* NOTIFAREF reminder engine: the reminder store (models/Reminder.js), the *)
(* user store (models/User.js), the delivery orchestrator                  *)
(* (services/notificationService.js), the scheduler                        *)
(* (services/schedulerService.js) and the API handlers that change         *)
(* reminders and notification settings (routes/reminders.js,               *)
(* routes/notifications.js).                                               *)
(*                                                                         *)
(* Instants are whole minutes since 1970-01-01T00:00Z.  A stored document  *)
(* is a record with the schema's field names; a field the schema leaves    *)
(* unset is Undefined.                                                     *)
(***************************************************************************)
EXTENDS Integers, Sequences, FiniteSets, TLC

VARIABLES
  now,        \* the wall clock (new Date())
  users,      \* the users collection: user id -> document
  reminders,  \* the reminders collection: reminder id -> document, or NoDoc
  nextId,     \* the next reminder id the store hands out
  due,        \* the processDueReminders run in flight (its locals)
  rec,        \* the processRecurringReminders run in flight (its locals)
  due2,       \* a processDueReminders run started while another is in flight
  rec2,       \* a processRecurringReminders run started while another is
              \* in flight
  sched       \* the SchedulerService object: isRunning, jobs; the tasks
              \* that have logged the start of a cycle, and an error

vars == <<now, users, reminders, nextId, due, rec, due2, rec2, sched>>

-----------------------------------------------------------------------------
(* Bounds of the model *)

MaxReminders == 2   \* reminders ever created
MaxTicks == 2       \* minutes the clock advances
MaxSnoozes == 1     \* snoozes of one reminder

-----------------------------------------------------------------------------
(* Values *)

\* a String field a document leaves out, and a Date or Number field it leaves
\* out (no instant and no count of the model is negative)
Undefined == "undefined"
Unset == 0 - 1
NoDoc == [status |-> "absent"]

Users == {"u1", "u2"}
\* the ids of the collection: those of the reminders the requests create,
\* and one more for a reminder the recurring job creates
RIds == 1..(MaxReminders + 1)

MinutesPerDay == 24 * 60
DefaultSnoozeMinutes == 15

-----------------------------------------------------------------------------
(* The calendar of JavaScript's Date, in UTC: days since 1970-01-01 to and *)
(* from (year, month 1..12, day).                                          *)

DayOfEra(yoe, doy) == yoe * 365 + yoe \div 4 - yoe \div 100 + doy

DayOfYear(mp, d) == (153 * mp + 2) \div 5 + d - 1

EraDays(yy, doy) ==
  (yy \div 400) * 146097 + DayOfEra(yy % 400, doy) - 719468

DaysFromCivil(y, m, d) ==
  EraDays(IF m <= 2 THEN y - 1 ELSE y,
          DayOfYear(IF m > 2 THEN m - 3 ELSE m + 9, d))

YearOfEra(doe) ==
  (doe - doe \div 1460 + doe \div 36524 - doe \div 146096) \div 365

CivilOfMonth(yearOfMarch, mp, d) ==
  [year  |-> yearOfMarch + (IF mp < 10 THEN 0 ELSE 1),
   month |-> IF mp < 10 THEN mp + 3 ELSE mp - 9,
   day   |-> d]

CivilOfDayOfYear(yearOfMarch, doy, mp) ==
  CivilOfMonth(yearOfMarch, mp, doy - (153 * mp + 2) \div 5 + 1)

CivilOfYear(era, doe, yoe) ==
  CivilOfDayOfYear(yoe + era * 400,
                   doe - (365 * yoe + yoe \div 4 - yoe \div 100),
                   (5 * (doe - (365 * yoe + yoe \div 4 - yoe \div 100)) + 2)
                     \div 153)

CivilOfEra(era, doe) == CivilOfYear(era, doe, YearOfEra(doe))

CivilFromDays(z) ==
  CivilOfEra((z + 719468) \div 146097, (z + 719468) % 146097)

\* Date.prototype.setDate(getDate() + n)
AddDays(t, n) == t + n * MinutesPerDay

\* the date (year, month index from 0, day) normalised as Date does: months
\* carry into the year, days past the end of the month into the next month
DateUTC(year, monthIndex, day, minuteOfDay) ==
  (DaysFromCivil(year + monthIndex \div 12, (monthIndex % 12) + 1, 1)
     + (day - 1)) * MinutesPerDay + minuteOfDay

SetMonth(c, n, minuteOfDay) ==
  DateUTC(c.year, (c.month - 1) + n, c.day, minuteOfDay)

SetFullYear(c, n, minuteOfDay) ==
  DateUTC(c.year + n, c.month - 1, c.day, minuteOfDay)

\* Date.prototype.setMonth(getMonth() + n)
AddMonths(t, n) ==
  SetMonth(CivilFromDays(t \div MinutesPerDay), n, t % MinutesPerDay)

\* Date.prototype.setFullYear(getFullYear() + n)
AddYears(t, n) ==
  SetFullYear(CivilFromDays(t \div MinutesPerDay), n, t % MinutesPerDay)

\* The instant the model's clock starts at: 2024-01-31T00:00Z
StartInstant == DaysFromCivil(2024, 1, 31) * MinutesPerDay

-----------------------------------------------------------------------------
(* Documents *)

Null == "null"
\* JavaScript's truthiness of a String-or-null value, and of a Date or null
Truthy(v) == v # Undefined /\ v # Null
IsDate(d) == d # Unset

\* userSchema: the notification-relevant fields with their defaults; a new
\* user holds no push subscription
NewUser(u) ==
  [ email |-> u,
    notifications |->
      [ webPush |-> [enabled |-> TRUE, subscription |-> Undefined],
        email   |-> [enabled |-> TRUE, fallback |-> TRUE] ],
    analytics |-> [totalReminders |-> 0] ]

\* reminderSchema.metadata.source: the values the schema accepts
SourceEnum == {"manual", "shared", "calendar", "import"}
RecurrenceTypes == {"none", "daily", "weekly", "monthly", "yearly"}
Statuses == {"pending", "completed", "cancelled", "snoozed"}

\* recurrence with the schema's defaults for what the caller leaves out
NoRecurrence ==
  [type |-> "none", interval |-> 1, endDate |-> Unset,
   maxOccurrences |-> Unset]

\* new Reminder({user, title, scheduledTime, recurrence, metadata: {source}})
\* with the schema's defaults
NewReminder(user, title, scheduledTime, recurrence, source) ==
  [ user |-> user,
    title |-> title,
    scheduledTime |-> scheduledTime,
    recurrence |-> recurrence,
    status |-> "pending",
    notifications |->
      [ webPush |-> [sent |-> FALSE, sentAt |-> Unset, error |-> Undefined],
        email   |-> [sent |-> FALSE, sentAt |-> Unset, error |-> Undefined] ],
    sharing |-> [isShared |-> FALSE, expiresAt |-> Unset],
    metadata |->
      [ completedAt |-> Unset, snoozeUntil |-> Unset,
        snoozeCount |-> 0, source |-> source ],
    updatedAt |-> Unset ]

\* timestamps: true: a save at instant t of a new document, or of a document
\* with a modified path, sets updatedAt; a save that modifies nothing writes
\* nothing
Timestamped(old, new, t) ==
  IF new = old THEN old ELSE [new EXCEPT !.updatedAt = t]

\* a schema whose enum of sources has a value for the recurring job
ValidReminderAnySource(doc) ==
  /\ doc.recurrence.type \in RecurrenceTypes
  /\ doc.status \in Statuses
  /\ doc.recurrence.interval >= 1

\* the schema's validation, run by save(): enum paths hold enum values
ValidReminder(doc) ==
  /\ doc.metadata.source \in SourceEnum
  /\ doc.recurrence.type \in RecurrenceTypes
  /\ doc.status \in Statuses
  /\ doc.recurrence.interval >= 1

Stored == {id \in RIds : reminders[id] # NoDoc}

\* reminderSchema.pre('save') for a new document that passed validation:
\* the owner's analytics.totalReminders is incremented
PreSave(us, doc) ==
  [us EXCEPT ![doc.user].analytics.totalReminders = @ + 1]

\* reminderSchema.pre('remove'): the owner's analytics.totalReminders is
\* decremented
PreRemove(us, doc) ==
  [us EXCEPT ![doc.user].analytics.totalReminders = @ - 1]

\* the users collection of a store whose reminders were all saved, and
\* removed, through the hooks
UsersOwning(store) ==
  [u \in Users |->
     [NewUser(u) EXCEPT !.analytics.totalReminders =
        Cardinality({id \in RIds : store[id] # NoDoc /\ store[id].user = u})]]

-----------------------------------------------------------------------------
(* The due scan *)

\* $lte against a Date: a missing or null field matches nothing
Lte(field, t) == IsDate(field) /\ field <= t

\* a filter that leaves the snoozed reminders out: what the query would be
\* without its second $or branch
DueFilterPendingOnly(doc, t) ==
  doc.status = "pending" /\ Lte(doc.scheduledTime, t)

\* a filter that drops the reminders a delivery has failed for
DueFilterUntried(doc, t) ==
  /\ \/ doc.status = "pending" /\ Lte(doc.scheduledTime, t)
     \/ doc.status = "snoozed" /\ Lte(doc.metadata.snoozeUntil, t)
  /\ doc.notifications.webPush.error = Undefined
  /\ doc.notifications.email.error = Undefined

\* Reminder.findDueReminders(): the query's filter on one document
DueFilter(doc, t) ==
  \/ doc.status = "pending" /\ Lte(doc.scheduledTime, t)
  \/ doc.status = "snoozed" /\ Lte(doc.metadata.snoozeUntil, t)

\* the ids the query returns at instant t
FindDueReminders(t) == {id \in Stored : DueFilter(reminders[id], t)}

\* a result set in the store's order (insertion order: ids ascend)
RECURSIVE InOrder(_)
InOrder(S) ==
  IF S = {} THEN <<>>
  ELSE LET m == CHOOSE x \in S : \A y \in S : x <= y
       IN  <<m>> \o InOrder(S \ {m})

-----------------------------------------------------------------------------
(* The delivery orchestrator: NotificationService *)

\* what the push service answers to one send: an HTTP status
PushReplies == {201, 404, 410, 500}
\* what the mail transport answers to one send
EmailReplies == {"ok", "error"}

\* an adapter that reports every rejection as push_failed: what sendWebPush
\* would be without its test of the status code
SendWebPushNoGone(reply) ==
  IF reply >= 200 /\ reply < 300
  THEN [success |-> TRUE, error |-> Undefined]
  ELSE [success |-> FALSE, error |-> "push_failed"]

\* the reply of a send that throws without a status code (a network error)
NoStatus == 0

\* an adapter that takes every rejection for a gone subscription
SendWebPushAllGone(reply) ==
  IF reply >= 200 /\ reply < 300
  THEN [success |-> TRUE, error |-> Undefined]
  ELSE [success |-> FALSE, error |-> "subscription_invalid"]

\* sendWebPush(subscription, payload, options): the adapter's result
SendWebPush(reply) ==
  IF reply >= 200 /\ reply < 300
  THEN [success |-> TRUE, error |-> Undefined]
  ELSE IF reply = 410 \/ reply = 404
       THEN [success |-> FALSE, error |-> "subscription_invalid"]
       ELSE [success |-> FALSE, error |-> "push_failed"]

\* sendEmail(to, subject, text, html): the adapter's result
SendEmail(reply) ==
  IF reply = "ok"
  THEN [success |-> TRUE, error |-> Undefined]
  ELSE [success |-> FALSE, error |-> "email_failed"]

\* the guard of the push attempt
ShouldSendPush(user) ==
  /\ user.notifications.webPush.enabled
  /\ Truthy(user.notifications.webPush.subscription)

\* a decision that ignores the push outcome
ShouldSendEmailAnyOutcome(user, pushSent) ==
  /\ user.notifications.email.enabled
  /\ \/ user.notifications.email.fallback
     \/ ~user.notifications.webPush.enabled

\* a decision that ignores email.enabled when push is disabled
ShouldSendEmailPushOff(user, pushSent) ==
  \/ /\ user.notifications.email.enabled
     /\ user.notifications.email.fallback
     /\ ~pushSent
  \/ ~user.notifications.webPush.enabled

\* shouldSendEmail
ShouldSendEmail(user, pushSent) ==
  /\ user.notifications.email.enabled
  /\ \/ user.notifications.email.fallback /\ ~pushSent
     \/ ~user.notifications.webPush.enabled

\* sendReminderNotification(reminder, user) up to its save: the returned
\* results, the two documents as the call leaves them in memory, whether
\* user.save() ran, and how many sends each adapter was asked for
SendReminderNotification(reminder, user, pushReply, emailReply, t) ==
  LET tryPush    == ShouldSendPush(user)
      pushResult == SendWebPush(pushReply)
      pushSent   == tryPush /\ pushResult.success
      pushFailed == tryPush /\ ~pushResult.success
      gone       == pushFailed /\ pushResult.error = "subscription_invalid"
      r1 == IF pushSent
            THEN [reminder EXCEPT !.notifications.webPush.sent = TRUE,
                                  !.notifications.webPush.sentAt = t]
            ELSE IF pushFailed
                 THEN [reminder EXCEPT
                         !.notifications.webPush.error = pushResult.error]
                 ELSE reminder
      u1 == IF gone
            THEN [user EXCEPT !.notifications.webPush.subscription = Null]
            ELSE user
      tryEmail    == ShouldSendEmail(u1, pushSent) /\ Truthy(u1.email)
      emailResult == SendEmail(emailReply)
      emailSent   == tryEmail /\ emailResult.success
      emailFailed == tryEmail /\ ~emailResult.success
      r2 == IF emailSent
            THEN [r1 EXCEPT !.notifications.email.sent = TRUE,
                            !.notifications.email.sentAt = t]
            ELSE IF emailFailed
                 THEN [r1 EXCEPT !.notifications.email.error = emailResult.error]
                 ELSE r1
  IN  [ results |->
          [ webPush |-> [sent |-> pushSent,
                         error |-> IF pushFailed THEN pushResult.error ELSE Null],
            email   |-> [sent |-> emailSent,
                         error |-> IF emailFailed THEN emailResult.error ELSE Null] ],
        reminder |-> r2,
        user |-> u1,
        userSaved |-> gone,
        pushSends |-> IF tryPush THEN 1 ELSE 0,
        emailSends |-> IF tryEmail THEN 1 ELSE 0 ]

\* a save that writes both channel records from the call's results, the
\* record of a channel that was not attempted included
SaveDeliveryOverwrite(stored, mem, results) ==
  [stored EXCEPT
     !.notifications.webPush =
        [sent |-> results.webPush.sent,
         sentAt |-> IF results.webPush.sent
                    THEN mem.notifications.webPush.sentAt ELSE Unset,
         error |-> IF results.webPush.error # Null
                   THEN results.webPush.error ELSE Undefined],
     !.notifications.email =
        [sent |-> results.email.sent,
         sentAt |-> IF results.email.sent
                    THEN mem.notifications.email.sentAt ELSE Unset,
         error |-> IF results.email.error # Null
                   THEN results.email.error ELSE Undefined]]

\* reminder.save() after a delivery: the paths the call modified are written
\* to the stored document, the others are left as stored
SaveDelivery(stored, mem, results) ==
  LET a == IF results.webPush.sent
           THEN [stored EXCEPT
                   !.notifications.webPush.sent = mem.notifications.webPush.sent,
                   !.notifications.webPush.sentAt = mem.notifications.webPush.sentAt]
           ELSE IF results.webPush.error # Null
                THEN [stored EXCEPT
                   !.notifications.webPush.error = mem.notifications.webPush.error]
                ELSE stored
  IN  IF results.email.sent
      THEN [a EXCEPT
              !.notifications.email.sent = mem.notifications.email.sent,
              !.notifications.email.sentAt = mem.notifications.email.sentAt]
      ELSE IF results.email.error # Null
           THEN [a EXCEPT
              !.notifications.email.error = mem.notifications.email.error]
           ELSE a

-----------------------------------------------------------------------------
(* The recurrence engine *)

\* the engine's step alone, without its test of endDate
GenerateNextOccurrenceNoEnd(doc) ==
  IF doc.recurrence.type = "none" THEN Unset
  ELSE CASE doc.recurrence.type = "daily" ->
              AddDays(doc.scheduledTime, doc.recurrence.interval)
         [] doc.recurrence.type = "weekly" ->
              AddDays(doc.scheduledTime, 7 * doc.recurrence.interval)
         [] doc.recurrence.type = "monthly" ->
              AddMonths(doc.scheduledTime, doc.recurrence.interval)
         [] doc.recurrence.type = "yearly" ->
              AddYears(doc.scheduledTime, doc.recurrence.interval)
         [] OTHER -> doc.scheduledTime

\* reminder.generateNextOccurrence(): the next instant, or Unset for null
GenerateNextOccurrence(doc) ==
  IF doc.recurrence.type = "none" THEN Unset
  ELSE LET next ==
             CASE doc.recurrence.type = "daily" ->
                    AddDays(doc.scheduledTime, doc.recurrence.interval)
               [] doc.recurrence.type = "weekly" ->
                    AddDays(doc.scheduledTime, 7 * doc.recurrence.interval)
               [] doc.recurrence.type = "monthly" ->
                    AddMonths(doc.scheduledTime, doc.recurrence.interval)
               [] doc.recurrence.type = "yearly" ->
                    AddYears(doc.scheduledTime, doc.recurrence.interval)
               [] OTHER -> doc.scheduledTime
       IN  IF IsDate(doc.recurrence.endDate) /\ next > doc.recurrence.endDate
           THEN Unset
           ELSE next

\* the query of processRecurringReminders: completed recurring reminders
\* whose scheduledTime has passed
RecurringFilter(doc, t) ==
  /\ doc.recurrence.type # "none"
  /\ doc.status = "completed"
  /\ Lte(doc.scheduledTime, t)

\* Reminder.findOne({user, title, scheduledTime, 'recurrence.type'}): the
\* stored reminders the duplicate check matches
FindExisting(user, title, scheduledTime, type) ==
  {id \in Stored :
     /\ reminders[id].user = user
     /\ reminders[id].title = title
     /\ reminders[id].scheduledTime = scheduledTime
     /\ reminders[id].recurrence.type = type}

-----------------------------------------------------------------------------
(* The state after construction *)

IdleDue ==
  [pc |-> "idle", batch |-> <<>>, docs |-> <<>>, userDocs |-> <<>>,
   idx |-> 0, results |-> <<>>, sends |-> <<>>, unsaved |-> <<>>]

IdleRec ==
  [pc |-> "idle", batch |-> <<>>, docs |-> <<>>, idx |-> 0,
   created |-> 0, skipped |-> 0, log |-> <<>>]

\* the names init() registers its three jobs under
JobNames == {"main", "recurring", "cleanup"}

\* the service object as the constructor leaves it, and as init() leaves it
\* (ran, errors: the tasks that have logged the start of a cycle, and an error)
Constructed ==
  [isRunning |-> FALSE, jobs |-> {}, ran |-> {}, errors |-> {}]
Initialized ==
  [isRunning |-> TRUE, jobs |-> JobNames, ran |-> {}, errors |-> {}]

\* the service once a cron callback of task has logged the start of a cycle
Ran(s, task) == [s EXCEPT !.ran = @ \cup {task}]

\* the server has started: the store is empty and init() has run
Init ==
  /\ now = StartInstant
  /\ users = [u \in Users |-> NewUser(u)]
  /\ reminders = [id \in RIds |-> NoDoc]
  /\ nextId = 1
  /\ due = IdleDue
  /\ rec = IdleRec
  /\ due2 = IdleDue
  /\ rec2 = IdleRec
  /\ sched = Initialized

-----------------------------------------------------------------------------
(* The API handlers *)

\* POST /api/reminders: the validation wants scheduledTime in the future
CreateReminder(u, title, scheduledTime, recurrence) ==
  /\ nextId <= MaxReminders
  /\ scheduledTime > now
  /\ LET doc == NewReminder(u, title, scheduledTime, recurrence, "manual")
     IN  /\ ValidReminder(doc)
         /\ reminders' = [reminders EXCEPT
                              ![nextId] = Timestamped(NoDoc, doc, now)]
         /\ users' = PreSave(users, doc)
  /\ nextId' = nextId + 1
  /\ UNCHANGED <<rec2, due2, sched, now, due, rec>>

\* reminder.markCompleted()
MarkCompleted(doc, t) ==
  [doc EXCEPT !.status = "completed", !.metadata.completedAt = t]

\* PATCH /api/reminders/:id/status, by the reminder's owner
UpdateStatus(id, status) ==
  /\ id \in Stored
  /\ status \in Statuses
  /\ reminders' =
       [reminders EXCEPT ![id] =
          Timestamped(@, IF status = "completed"
                         THEN MarkCompleted(@, now)
                         ELSE [@ EXCEPT !.status = status], now)]
  /\ UNCHANGED <<rec2, due2, sched, now, users, nextId, due, rec>>

\* reminder.snooze(minutes)
SnoozeDoc(doc, minutes, t) ==
  [doc EXCEPT !.status = "snoozed",
              !.metadata.snoozeUntil = t + minutes,
              !.metadata.snoozeCount = @ + 1]

\* PATCH /api/reminders/:id/snooze, by the reminder's owner
Snooze(id, minutes) ==
  /\ id \in Stored
  /\ minutes >= 1 /\ minutes <= MinutesPerDay
  /\ reminders[id].metadata.snoozeCount < MaxSnoozes
  /\ reminders' = [reminders EXCEPT
                      ![id] = Timestamped(@, SnoozeDoc(@, minutes, now), now)]
  /\ UNCHANGED <<rec2, due2, sched, now, users, nextId, due, rec>>

\* PUT /api/reminders/:id, by the reminder's owner: the validation wants a
\* title and a scheduledTime in the future
UpdateReminder(id, title, scheduledTime) ==
  /\ id \in Stored
  /\ scheduledTime > now
  /\ reminders' =
       [reminders EXCEPT ![id] =
          Timestamped(@, [@ EXCEPT !.title = title,
                                   !.scheduledTime = scheduledTime], now)]
  /\ UNCHANGED <<rec2, due2, sched, now, users, nextId, due, rec>>

\* POST /api/notifications/subscribe
Subscribe(u, subscription) ==
  /\ Truthy(subscription)
  /\ users' = [users EXCEPT
                 ![u].notifications.webPush.subscription = subscription,
                 ![u].notifications.webPush.enabled = TRUE]
  /\ UNCHANGED <<rec2, due2, sched, now, reminders, nextId, due, rec>>

\* DELETE /api/notifications/unsubscribe
Unsubscribe(u) ==
  /\ users' = [users EXCEPT
                 ![u].notifications.webPush.subscription = Null,
                 ![u].notifications.webPush.enabled = FALSE]
  /\ UNCHANGED <<rec2, due2, sched, now, reminders, nextId, due, rec>>

\* PUT /api/notifications/settings: each flag is set when the body has it
\* (<<>> for a flag the body leaves out, <<v>> for one it gives)
UpdateSettings(u, webPushEnabled, emailEnabled, emailFallback) ==
  /\ users' = [users EXCEPT
       ![u].notifications.webPush.enabled =
          IF webPushEnabled # <<>> THEN webPushEnabled[1] ELSE @,
       ![u].notifications.email.enabled =
          IF emailEnabled # <<>> THEN emailEnabled[1] ELSE @,
       ![u].notifications.email.fallback =
          IF emailFallback # <<>> THEN emailFallback[1] ELSE @]
  /\ UNCHANGED <<rec2, due2, sched, now, reminders, nextId, due, rec>>


-----------------------------------------------------------------------------
(* SchedulerService.processDueReminders, one await at a time *)

\* the scan: findDueReminders() with each reminder's user populated; the
\* reminders of one user share one populated user document
DueScan(t) ==
  LET batch == InOrder(FindDueReminders(t))
  IN  IF Len(batch) = 0
      THEN [IdleDue EXCEPT !.pc = "done"]
      ELSE [IdleDue EXCEPT
              !.pc = "deliver",
              !.batch = batch,
              !.docs = [i \in 1..Len(batch) |-> reminders[batch[i]]],
              !.userDocs = users]

\* the main job's cron callback: the next minute begins and
\* processDueReminders starts with its scan
MainJobTick ==
  /\ "main" \in sched.jobs
  /\ due.pc = "idle"
  /\ now + 1 <= StartInstant + MaxTicks
  /\ now' = now + 1
  /\ due' = DueScan(now + 1)
  /\ sched' = Ran(sched, "main")
  /\ UNCHANGED <<rec2, due2, users, reminders, nextId, rec>>

\* triggerDueRemindersCheck(): processDueReminders starts now
TriggerDueRemindersCheck ==
  /\ due.pc = "idle"
  /\ due' = DueScan(now)
  /\ UNCHANGED <<rec2, due2, sched, now, users, reminders, nextId, rec>>

\* a success that wants both channels
OverallSuccessBoth(results) == results.webPush.sent /\ results.email.sent

\* sendBulkNotifications: success: result.webPush.sent || result.email.sent
OverallSuccess(results) == results.webPush.sent \/ results.email.sent

\* a loop that leaves its last element out
AfterDeliveryEarly(i, n) == IF i + 1 >= n THEN "reset" ELSE "deliver"

\* the pc after the i-th of n deliveries
AfterDelivery(i, n) == IF i = n THEN "reset" ELSE "deliver"

\* a loop that an exception in one delivery ends
AfterFailedDeliveryAbort(i, n) == "done"

\* the pc after the i-th of n deliveries threw: the catch inside the loop
\* pushes a failure result and the loop goes on
AfterFailedDelivery(i, n) == AfterDelivery(i, n)

\* what a call that modified nothing leaves to be saved
NothingUnsaved ==
  [webPush |-> [sent |-> FALSE, error |-> Null],
   email   |-> [sent |-> FALSE, error |-> Null]]

\* one iteration of sendBulkNotifications in the run whose locals are run:
\* sendReminderNotification on the next reminder of the batch, its saves,
\* and the result pushed.  When reminder.save() rejects (saved is FALSE) the
\* stored reminder is as it was, the modified paths stay modified in the
\* run's document, and the catch pushes a failure result.
DeliverStep(run, pushReply, emailReply, saved) ==
  LET i   == run.idx + 1
      id  == run.batch[i]
      mem == run.docs[i]
      out == SendReminderNotification(mem, run.userDocs[mem.user],
                                      pushReply, emailReply, now)
  IN  [ users |->
          IF out.userSaved
          THEN [users EXCEPT
                  ![mem.user].notifications.webPush.subscription =
                     out.user.notifications.webPush.subscription]
          ELSE users,
        reminders |->
          IF saved /\ reminders[id] # NoDoc
          THEN [reminders EXCEPT
                  ![id] = Timestamped(@, SaveDelivery(@, out.reminder,
                                                      out.results), now)]
          ELSE reminders,
        run |->
          [run EXCEPT
             !.pc = IF saved THEN AfterDelivery(i, Len(run.batch))
                    ELSE AfterFailedDelivery(i, Len(run.batch)),
             !.idx = i,
             !.docs[i] = out.reminder,
             !.userDocs[mem.user] = out.user,
             !.unsaved = Append(@, IF saved THEN NothingUnsaved
                                   ELSE out.results),
             !.results = Append(@,
                IF saved
                THEN [reminderId |-> id,
                      success |-> OverallSuccess(out.results),
                      webPush |-> out.results.webPush,
                      email |-> out.results.email]
                ELSE [reminderId |-> id,
                      success |-> FALSE,
                      error |-> "save_failed"]),
             !.sends = Append(@,
                [user |-> run.userDocs[mem.user],
                 pushReply |-> IF out.pushSends = 1 THEN pushReply ELSE Unset,
                 push |-> out.pushSends,
                 email |-> out.emailSends])] ]

\* one iteration of sendBulkNotifications, every save accepted
DueDeliver(pushReply, emailReply) ==
  /\ due.pc = "deliver"
  /\ LET step == DeliverStep(due, pushReply, emailReply, TRUE)
     IN  /\ users' = step.users
         /\ reminders' = step.reminders
         /\ due' = step.run
  /\ UNCHANGED <<rec2, due2, sched, now, nextId, rec>>

\* one iteration of sendBulkNotifications in which reminder.save() rejects
DueDeliverSaveFails(pushReply, emailReply) ==
  /\ due.pc = "deliver"
  /\ LET step == DeliverStep(due, pushReply, emailReply, FALSE)
     IN  /\ users' = step.users
         /\ reminders' = step.reminders
         /\ due' = step.run
  /\ UNCHANGED <<rec2, due2, sched, now, nextId, rec>>

\* a guard that misses the snooze that elapses at this very instant
SnoozeElapsedStrict(mem, t) ==
  /\ mem.status = "snoozed"
  /\ IsDate(mem.metadata.snoozeUntil)
  /\ mem.metadata.snoozeUntil < t

\* the guard of the snooze reset, on the document as the run holds it
SnoozeElapsed(mem, t) ==
  /\ mem.status = "snoozed"
  /\ IsDate(mem.metadata.snoozeUntil)
  /\ mem.metadata.snoozeUntil <= t

\* a reset that also starts the count of snoozes afresh
ResetDocClearsCount(stored) ==
  [stored EXCEPT !.status = "pending", !.metadata.snoozeUntil = Unset,
                 !.metadata.snoozeCount = 0]

\* the reset's save: status and snoozeUntil are the modified paths
ResetDoc(stored) ==
  [stored EXCEPT !.status = "pending", !.metadata.snoozeUntil = Unset]

\* the collection after the loop that returns the run's elapsed snoozes to
\* pending: each save writes the paths modified in the run's document, those
\* an earlier rejected save left modified included
ResetStep(run) ==
  [id \in RIds |->
     IF /\ reminders[id] # NoDoc
        /\ \E i \in 1..Len(run.batch) :
             run.batch[i] = id /\ SnoozeElapsed(run.docs[i], now)
     THEN LET i == CHOOSE j \in 1..Len(run.batch) : run.batch[j] = id
          IN  Timestamped(reminders[id],
                ResetDoc(SaveDelivery(reminders[id], run.docs[i],
                                      run.unsaved[i])),
                now)
     ELSE reminders[id]]

\* the loop that returns the run's elapsed snoozes to pending
DueReset ==
  /\ due.pc = "reset"
  /\ reminders' = ResetStep(due)
  /\ due' = [due EXCEPT !.pc = "done"]
  /\ UNCHANGED <<rec2, due2, sched, now, users, nextId, rec>>

\* processDueReminders returns: its locals are gone
DueReturn ==
  /\ due.pc = "done"
  /\ due' = IdleDue
  /\ UNCHANGED <<rec2, due2, sched, now, users, reminders, nextId, rec>>

-----------------------------------------------------------------------------
(* SchedulerService.processRecurringReminders, one iteration at a time *)

\* the locals of a run after its query for completed recurring reminders
RecStart ==
  LET batch == InOrder({id \in Stored : RecurringFilter(reminders[id], now)})
  IN  IF Len(batch) = 0
      THEN [IdleRec EXCEPT !.pc = "done"]
      ELSE [IdleRec EXCEPT
              !.pc = "loop",
              !.batch = batch,
              !.docs = [i \in 1..Len(batch) |-> reminders[batch[i]]]]

\* the recurring job's cron callback (or triggerRecurringRemindersCheck):
\* processRecurringReminders starts with its query
RecScan ==
  /\ rec.pc = "idle"
  /\ rec' = RecStart
  /\ UNCHANGED <<rec2, due2, sched, now, users, reminders, nextId, due>>

\* the document the loop builds for the next occurrence
NextReminder(parent, nextOccurrence) ==
  NewReminder(parent.user, parent.title, nextOccurrence, parent.recurrence,
              "recurring")

\* one iteration of the loop: the engine, the duplicate check, the save; a
\* save the schema rejects throws and the iteration counts as skipped
RecStep ==
  /\ rec.pc = "loop"
  /\ LET i      == rec.idx + 1
         parent == rec.docs[i]
         next   == GenerateNextOccurrence(parent)
         dup    == next # Unset /\
                   FindExisting(parent.user, parent.title, next,
                                parent.recurrence.type) # {}
         doc    == NextReminder(parent, next)
         saves  == next # Unset /\ ~dup /\ ValidReminder(doc)
     IN  /\ saves => nextId \in RIds
         /\ reminders' = IF saves
                         THEN [reminders EXCEPT
                                 ![nextId] = Timestamped(NoDoc, doc, now)]
                         ELSE reminders
         /\ nextId' = IF saves THEN nextId + 1 ELSE nextId
         /\ users' = IF saves THEN PreSave(users, doc) ELSE users
         /\ rec' = [rec EXCEPT
              !.pc = IF i = Len(rec.batch) THEN "done" ELSE "loop",
              !.idx = i,
              !.created = IF saves THEN @ + 1 ELSE @,
              !.skipped = IF saves THEN @ ELSE @ + 1,
              !.log = Append(@, [next |-> next, duplicate |-> dup,
                                 created |-> saves])]
  /\ UNCHANGED <<rec2, due2, sched, now, due>>

\* processRecurringReminders returns: its locals are gone
RecReturn ==
  /\ rec.pc = "done"
  /\ rec' = IdleRec
  /\ UNCHANGED <<rec2, due2, sched, now, users, reminders, nextId, due>>

-----------------------------------------------------------------------------
(* Sharing, and SchedulerService.cleanupExpiredData *)

MinutesPerHour == 60
CompletedRetentionDays == 90
CancelledRetentionDays == 30

\* reminder.createShareToken(expirationHours)
CreateShareToken(doc, expirationHours, t) ==
  [doc EXCEPT !.sharing.isShared = TRUE,
              !.sharing.expiresAt = t + expirationHours * MinutesPerHour]

\* POST /api/reminders/:id/share, by the reminder's owner
ShareReminder(id, expirationHours) ==
  /\ id \in Stored
  /\ expirationHours >= 1 /\ expirationHours <= 168
  /\ reminders' = [reminders EXCEPT
       ![id] = Timestamped(@, CreateShareToken(@, expirationHours, now), now)]
  /\ UNCHANGED <<rec2, due2, sched, now, users, nextId, due, rec>>

\* POST /api/reminders/shared/:token/import, by user u with the token of
\* reminder id: a share that has not expired is copied into a new reminder
ImportSharedReminder(u, id) ==
  /\ id \in Stored
  /\ reminders[id].sharing.isShared
  /\ IsDate(reminders[id].sharing.expiresAt)
  /\ reminders[id].sharing.expiresAt > now
  /\ nextId \in RIds
  /\ LET original == reminders[id]
         doc == NewReminder(u, original.title, original.scheduledTime,
                            original.recurrence, "shared")
     IN  /\ ValidReminder(doc)
         /\ reminders' = [reminders EXCEPT
                              ![nextId] = Timestamped(NoDoc, doc, now)]
         /\ users' = PreSave(users, doc)
  /\ nextId' = nextId + 1
  /\ UNCHANGED <<rec2, due2, sched, now, due, rec>>

\* DELETE /api/reminders/:id, by the reminder's owner: reminder.remove()
DeleteReminder(id) ==
  /\ id \in Stored
  /\ users' = PreRemove(users, reminders[id])
  /\ reminders' = [reminders EXCEPT ![id] = NoDoc]
  /\ UNCHANGED <<rec2, due2, sched, now, nextId, due, rec>>

\* $lt against a Date: a missing or null field matches nothing
Lt(field, t) == IsDate(field) /\ field < t

\* the filter of the updateMany: shares whose expiry has passed
ShareExpired(doc, t) == doc.sharing.isShared /\ Lt(doc.sharing.expiresAt, t)

\* the update of the updateMany on a document it matches: the share is
\* taken back, and the timestamps option adds updatedAt to the update
ExpireShare(doc, t) ==
  [doc EXCEPT !.sharing.isShared = FALSE,
              !.sharing.expiresAt = Unset,
              !.updatedAt = t]

\* the filter of the first deleteMany, with ninetyDaysAgo
OldCompleted(doc, t) ==
  /\ doc.status = "completed"
  /\ Lt(doc.metadata.completedAt, AddDays(t, 0 - CompletedRetentionDays))

\* the filter of the second deleteMany, with thirtyDaysAgo
OldCancelled(doc, t) ==
  /\ doc.status = "cancelled"
  /\ Lt(doc.updatedAt, AddDays(t, 0 - CancelledRetentionDays))

\* the collection after Reminder.updateMany(...)
AfterExpiredShares(store, t) ==
  [id \in RIds |->
     IF store[id] # NoDoc /\ ShareExpired(store[id], t)
     THEN ExpireShare(store[id], t) ELSE store[id]]

\* the collection after deleteMany({status: 'completed', completedAt: $lt})
DeleteOldCompleted(store, t) ==
  [id \in RIds |->
     IF store[id] # NoDoc /\ OldCompleted(store[id], t)
     THEN NoDoc ELSE store[id]]

\* the collection after deleteMany({status: 'cancelled', updatedAt: $lt})
DeleteOldCancelled(store, t) ==
  [id \in RIds |->
     IF store[id] # NoDoc /\ OldCancelled(store[id], t)
     THEN NoDoc ELSE store[id]]

\* the collection after the three statements, in the order of the code
Cleaned(store, t) ==
  DeleteOldCancelled(DeleteOldCompleted(AfterExpiredShares(store, t), t), t)

\* cleanupExpiredData()
CleanupExpiredData ==
  /\ reminders' = Cleaned(reminders, now)
  /\ UNCHANGED <<rec2, due2, sched, now, users, nextId, due, rec>>

-----------------------------------------------------------------------------
(* The specification *)

\* No API request is served while a scheduler run is between two awaits
Quiet == due.pc = "idle" /\ rec.pc = "idle"

Titles == {"Pay rent"}
Subscriptions == {"endpoint-1"}
Flags == {<<>>, <<TRUE>>, <<FALSE>>}

\* The due cycle over a store of several reminders
Next ==
  \/ Quiet /\ \E title \in Titles :
       CreateReminder("u1", title, now + 1, NoRecurrence)
  \/ Quiet /\ \E id \in RIds, st \in {"completed", "cancelled"} :
       UpdateStatus(id, st)
  \/ Quiet /\ \E id \in RIds : Snooze(id, 1)
  \/ Quiet /\ \E sub \in Subscriptions : Subscribe("u1", sub)
  \/ MainJobTick
  \/ \E p \in {201, 500}, e \in EmailReplies : DueDeliver(p, e)
  \/ DueReset
  \/ DueReturn

Spec == Init /\ [][Next]_vars

\* One reminder of one user, every notification setting, every reply
NextDelivery ==
  \/ Quiet /\ Stored = {} /\ \E title \in Titles :
       CreateReminder("u1", title, now + 1, NoRecurrence)
  \/ Quiet /\ \E sub \in Subscriptions : Subscribe("u1", sub)
  \/ Quiet /\ Unsubscribe("u1")
  \/ Quiet /\ \E a \in Flags, b \in Flags, c \in Flags :
       UpdateSettings("u1", a, b, c)
  \/ MainJobTick
  \/ TriggerDueRemindersCheck
  \/ \E p \in PushReplies, e \in EmailReplies : DueDeliver(p, e)
  \/ DueReset
  \/ DueReturn

SpecDelivery == Init /\ [][NextDelivery]_vars

\* The recurrences a request may ask for
Recurrences ==
  {[type |-> ty, interval |-> n, endDate |-> e, maxOccurrences |-> m] :
     ty \in RecurrenceTypes \ {"none"},
     n \in {1},
     e \in {Unset, StartInstant + 10 * MinutesPerDay},
     m \in {Unset, 1}}

\* Recurring reminders, completed by their owner, and the recurring job
NextRecurrence ==
  \/ Quiet /\ \E title \in Titles, rc \in Recurrences :
       CreateReminder("u1", title, now + 1, rc)
  \/ Quiet /\ \E id \in RIds : UpdateStatus(id, "completed")
  \/ MainJobTick
  \/ DueDeliver(201, "ok")
  \/ DueReset
  \/ DueReturn
  \/ RecScan
  \/ RecStep
  \/ RecReturn

SpecRecurrence == Init /\ [][NextRecurrence]_vars

-----------------------------------------------------------------------------
(* Properties of the due scan and of the due cycle *)

\* the state right after a scan: nothing delivered yet, or nothing found
JustScanned ==
  \/ due.pc = "deliver" /\ due.idx = 0
  \/ due.pc = "done" /\ due.batch = <<>>

\* the reminders that are due at instant t, as the specification words it
IsDue(doc, t) ==
  \/ doc.status = "pending" /\ doc.scheduledTime <= t
  \/ /\ doc.status = "snoozed"
     /\ doc.metadata.snoozeUntil # Unset
     /\ doc.metadata.snoozeUntil <= t

C5_SnoozedResetAndDelivered ==
  due.pc = "done" =>
    \A i \in 1..Len(due.batch) :
      due.docs[i].status = "snoozed" =>
        /\ reminders[due.batch[i]].status = "pending"
        /\ reminders[due.batch[i]].metadata.snoozeUntil = Unset
        /\ Cardinality({k \in 1..Len(due.results) :
                          due.results[k].reminderId = due.batch[i]}) = 1

\* a cycle that ends with a snooze reset although neither channel sent
C5_Witness ==
  /\ due.pc = "done"
  /\ \E i \in 1..Len(due.batch) :
       /\ due.docs[i].status = "snoozed"
       /\ reminders[due.batch[i]].status = "pending"
       /\ ~due.results[i].success

\* C5 as the specification states it: the cycle also sent a notification
\* for every snoozed reminder it reset.
C5_Original ==
  due.pc = "done" =>
    \A i \in 1..Len(due.batch) :
      due.docs[i].status = "snoozed" =>
        /\ reminders[due.batch[i]].status = "pending"
        /\ reminders[due.batch[i]].metadata.snoozeUntil = Unset
        /\ \E k \in 1..Len(due.results) :
             /\ due.results[k].reminderId = due.batch[i]
             /\ due.results[k].success

\* C6: in one cycle every due reminder is handed to delivery exactly once:
\* the k-th delivery call is for the k-th reminder of the scan, no reminder
\* is in the scan twice, a call asks each adapter for at most one send, and
\* the reset of the snoozed reminders begins only when every reminder of the
\* scan has had its call and adds none.
C6_DeliveredOncePerCycle ==
  /\ Len(due.results) = due.idx
  /\ Len(due.sends) = due.idx
  /\ due.idx <= Len(due.batch)
  /\ \A i, j \in 1..Len(due.batch) : due.batch[i] = due.batch[j] => i = j
  /\ \A k \in 1..due.idx :
       /\ due.results[k].reminderId = due.batch[k]
       /\ due.sends[k].push <= 1
       /\ due.sends[k].email <= 1
  /\ due.pc \in {"reset", "done"} => due.idx = Len(due.batch)

\* a finished cycle of two reminders, one of them a snoozed reminder that the
\* cycle reset, each with one push and one email attempt
C6_Witness ==
  /\ due.pc = "done"
  /\ Len(due.batch) = 2
  /\ \E i \in 1..2 : due.docs[i].status = "snoozed" /\
                     reminders[due.batch[i]].status = "pending"
  /\ \A k \in 1..2 : due.sends[k].push = 1 /\ due.sends[k].email = 1

-----------------------------------------------------------------------------
(* Properties of one delivery call *)

\* the flags of the user a delivery call was made for, and what the call
\* asked of the adapters
PushOn(s) == s.user.notifications.webPush.enabled
Subscribed(s) == Truthy(s.user.notifications.webPush.subscription)
EmailOn(s) == s.user.notifications.email.enabled
FallbackOn(s) == s.user.notifications.email.fallback
PushSucceeded(s) == s.push = 1 /\ s.pushReply >= 200 /\ s.pushReply < 300
PushFailedSend(s) == s.push = 1 /\ ~(s.pushReply >= 200 /\ s.pushReply < 300)
Calls == {due.sends[k] : k \in 1..Len(due.sends)}

\* C2 (amended): for a user with push enabled, a stored subscription, email
\* enabled and email fallback enabled, one delivery call attempts the push,
\* attempts email exactly once when the push send fails and not at all when
\* the push send succeeds.
C2_FallbackWithEmailEnabled ==
  \A s \in Calls :
    PushOn(s) /\ Subscribed(s) /\ EmailOn(s) /\ FallbackOn(s) =>
      /\ s.push = 1
      /\ PushFailedSend(s) => s.email = 1
      /\ PushSucceeded(s) => s.email = 0

\* a call whose push send failed and whose email was attempted
C2_Witness ==
  \E s \in Calls :
    /\ PushOn(s) /\ Subscribed(s) /\ EmailOn(s) /\ FallbackOn(s)
    /\ PushFailedSend(s)
    /\ s.email = 1

\* C2 as the specification states it: push enabled, a subscription and
\* email fallback enabled are enough for the fallback.
C2_Original ==
  \A s \in Calls :
    PushOn(s) /\ Subscribed(s) /\ FallbackOn(s) =>
      /\ PushFailedSend(s) => s.email = 1
      /\ PushSucceeded(s) => s.email = 0

\* C3 (amended): for every combination of the user's flags and of the push
\* outcome, a delivery call attempts email if and only if email is enabled
\* and either the fallback is enabled and the push did not succeed, or the
\* push channel is disabled.
C3_EmailDecision ==
  \A s \in Calls :
    s.email = 1 <=>
      /\ EmailOn(s)
      /\ \/ FallbackOn(s) /\ ~PushSucceeded(s)
         \/ ~PushOn(s)

\* a call for a user with push and email both disabled: no email
C3_Witness ==
  \E s \in Calls : ~PushOn(s) /\ ~EmailOn(s) /\ s.email = 0 /\ s.push = 0

\* C3 as the specification states it: a disabled push channel alone makes
\* the call send email.
C3_Original ==
  \A s \in Calls :
    s.email = 1 <=>
      \/ EmailOn(s) /\ FallbackOn(s) /\ ~PushSucceeded(s)
      \/ ~PushOn(s)

\* the delivery call this step makes, if it makes one
CallMade == Len(due'.sends) = Len(due.sends) + 1
ThisCall == due'.sends[Len(due'.sends)]
CallUser == due.docs[due.idx + 1].user
StoredSubscription(u) == users[u].notifications.webPush.subscription
SubscriptionAfter(u) == users'[u].notifications.webPush.subscription

\* C4: a push send that is rejected as gone (404 or 410) leaves the user's
\* stored subscription cleared; while the stored subscription is cleared no
\* delivery call attempts a push for that user; and a cleared subscription
\* is replaced only by the user subscribing again.
C4_GoneClearsSubscription ==
  [][/\ CallMade /\ ThisCall.push = 1 /\ ThisCall.pushReply \in {404, 410}
          => SubscriptionAfter(CallUser) = Null
     /\ CallMade /\ ThisCall.push = 1
          => Truthy(StoredSubscription(CallUser))
     /\ \A u \in Users :
          ~Truthy(StoredSubscription(u)) /\ Truthy(SubscriptionAfter(u))
            => \E sub \in Subscriptions : Subscribe(u, sub)]_vars

\* a later cycle delivers, without a push attempt, a reminder whose earlier
\* push was rejected as gone, to a user who still has push enabled
C4_Witness ==
  \E k \in 1..Len(due.sends) :
    /\ due.sends[k].push = 0
    /\ PushOn(due.sends[k])
    /\ due.sends[k].user.notifications.webPush.subscription = Null
    /\ due.docs[k].notifications.webPush.error = "subscription_invalid"

-----------------------------------------------------------------------------
(* Properties of the recurrence engine and of recurrence processing *)

\* the parents the run has been through, with what the run logged for each
Processed == 1..Len(rec.log)

\* the stored reminders that are the next occurrence of a parent
Occurrences(parent, next) ==
  {id \in Stored :
     /\ reminders[id].user = parent.user
     /\ reminders[id].title = parent.title
     /\ reminders[id].scheduledTime = next
     /\ reminders[id].recurrence = parent.recurrence}

\* C7 as the specification states it: when a run of recurrence processing
\* over a completed parent whose series goes on has ended, be it the first
\* run or a repeated one, storage holds exactly one next occurrence of it.
C7_ExactlyOneOccurrence ==
  rec.pc = "done" =>
    \A i \in Processed :
      rec.log[i].next # Unset =>
        Cardinality(Occurrences(rec.docs[i], rec.log[i].next)) = 1

\* C8 as the specification states it: for a completed recurring parent
\* whose series goes on and whose next occurrence is not stored yet, the
\* iteration stores a pending reminder of the same user, title and
\* recurrence at the parent's scheduledTime advanced by one step.
C8_NextOccurrenceStored ==
  \A i \in Processed :
    rec.log[i].next # Unset /\ ~rec.log[i].duplicate =>
      \E id \in Occurrences(rec.docs[i], rec.log[i].next) :
        reminders[id].status = "pending"

\* an iteration over a monthly parent: the engine returned the instant one
\* month on, no duplicate was found, and nothing was created
C8_Witness ==
  \E i \in Processed :
    /\ rec.docs[i].recurrence.type = "monthly"
    /\ rec.log[i].next = AddMonths(rec.docs[i].scheduledTime, 1)
    /\ ~rec.log[i].duplicate
    /\ ~rec.log[i].created

\* C9 as the specification states it, for n = 1: the parent is the one
\* occurrence its series may have, so the engine returns nothing for it and
\* the iteration creates nothing.
C9_MaxOccurrencesEndsSeries ==
  \A i \in Processed :
    rec.docs[i].recurrence.maxOccurrences = 1 =>
      rec.log[i].next = Unset /\ ~rec.log[i].created

\* C10: whenever endDate is set, the engine returns nothing or an instant
\* that is not after endDate: it returns nothing when the instant one step
\* on is after endDate; and no reminder that recurrence processing stored
\* is scheduled after its series' endDate.
C10_NothingAfterEndDate ==
  /\ \A i \in Processed :
       LET parent == rec.docs[i]
           step   == GenerateNextOccurrence(
                       [parent EXCEPT !.recurrence.endDate = Unset])
       IN  IsDate(parent.recurrence.endDate) =>
             /\ step > parent.recurrence.endDate => rec.log[i].next = Unset
             /\ rec.log[i].next # Unset =>
                  rec.log[i].next <= parent.recurrence.endDate
             /\ rec.log[i].created =>
                  rec.log[i].next <= parent.recurrence.endDate
  /\ \A id \in Stored :
       /\ reminders[id].metadata.source = "recurring"
       /\ IsDate(reminders[id].recurrence.endDate)
       => reminders[id].scheduledTime <= reminders[id].recurrence.endDate

\* an iteration over a parent whose next month is after its endDate: the
\* engine returned nothing
C10_Witness ==
  \E i \in Processed :
    /\ rec.docs[i].recurrence.type = "monthly"
    /\ IsDate(rec.docs[i].recurrence.endDate)
    /\ AddMonths(rec.docs[i].scheduledTime, 1) > rec.docs[i].recurrence.endDate
    /\ rec.log[i].next = Unset

-----------------------------------------------------------------------------
(* The recurrence engine on its own: one completed recurring reminder whose *)
(* scheduledTime has passed, and one run of the recurring job over it       *)

MaxAge == 3         \* days since the parent's scheduledTime
MaxInterval == 2    \* recurrence.interval

\* the recurrences of the parents: no end, an end that has passed, an end
\* that is still to come
EngineRecurrences ==
  {[type |-> ty, interval |-> n, endDate |-> e, maxOccurrences |-> Unset] :
     ty \in RecurrenceTypes,
     n \in 1..MaxInterval,
     e \in {Unset, StartInstant - MinutesPerDay,
            StartInstant + 10 * MinutesPerDay}}

\* a parent scheduled d days ago, created the day before that and completed
\* by its owner at once (markCompleted)
EngineParent(d, rc) ==
  Timestamped(NoDoc,
    MarkCompleted(
      NewReminder("u1", "Pay rent", StartInstant - d * MinutesPerDay, rc,
                  "manual"),
      StartInstant - (d + 1) * MinutesPerDay),
    StartInstant - (d + 1) * MinutesPerDay)

InitEngine ==
  /\ now = StartInstant
  /\ \E d \in 0..MaxAge, rc \in EngineRecurrences :
       reminders = [id \in RIds |-> IF id = 1 THEN EngineParent(d, rc)
                                    ELSE NoDoc]
  /\ users = UsersOwning(reminders)
  /\ nextId = 2
  /\ due = IdleDue
  /\ rec = IdleRec
  /\ due2 = IdleDue
  /\ rec2 = IdleRec
  /\ sched = Initialized

NextEngine ==
  \/ RecScan
  \/ RecStep
  \/ RecReturn

SpecEngine == InitEngine /\ [][NextEngine]_vars

\* C11 as the specification states it: when the recurring job runs after
\* the series' endDate has passed, the engine returns nothing for the parent
\* and the iteration creates nothing.
C11_EndDatePassedNoOccurrence ==
  \A i \in Processed :
    /\ IsDate(rec.docs[i].recurrence.endDate)
    /\ rec.docs[i].recurrence.endDate < now
    => rec.log[i].next = Unset /\ ~rec.log[i].created

\* an iteration over a parent whose series ended yesterday: the engine
\* returned an instant that is not after endDate
C11_Witness ==
  \E i \in Processed :
    /\ IsDate(rec.docs[i].recurrence.endDate)
    /\ rec.docs[i].recurrence.endDate < now
    /\ rec.log[i].next # Unset
    /\ rec.log[i].next <= rec.docs[i].recurrence.endDate

\* the calendar fields of an instant
YearOf(t) == CivilFromDays(t \div MinutesPerDay).year
MonthOf(t) == CivilFromDays(t \div MinutesPerDay).month
MonthCount(t) == 12 * YearOf(t) + MonthOf(t)

\* C12 as the specification states it: what the engine returns is the
\* parent's scheduledTime advanced by interval units of the recurrence type:
\* interval days, 7 * interval days, a date interval calendar months on, a
\* date in the same month interval years on; it is later than the parent's
\* scheduledTime.
C12_AdvancedByIntervalUnits ==
  \A i \in Processed :
    LET parent == rec.docs[i]
        t      == parent.scheduledTime
        n      == parent.recurrence.interval
        next   == rec.log[i].next
    IN  next # Unset =>
          /\ next > t
          /\ next % MinutesPerDay = t % MinutesPerDay
          /\ parent.recurrence.type = "daily" =>
               next = t + n * MinutesPerDay
          /\ parent.recurrence.type = "weekly" =>
               next = t + 7 * n * MinutesPerDay
          /\ parent.recurrence.type = "monthly" =>
               MonthCount(next) = MonthCount(t) + n
          /\ parent.recurrence.type = "yearly" =>
               YearOf(next) = YearOf(t) + n /\ MonthOf(next) = MonthOf(t)

\* an iteration over a monthly parent scheduled on the 31st of January: the
\* engine returned a date in March
C12_Witness ==
  \E i \in Processed :
    /\ rec.docs[i].recurrence.type = "monthly"
    /\ rec.docs[i].recurrence.interval = 1
    /\ MonthOf(rec.docs[i].scheduledTime) = 1
    /\ rec.log[i].next # Unset
    /\ MonthOf(rec.log[i].next) = 3

-----------------------------------------------------------------------------
(* Properties of the per-channel delivery records *)

\* the reminder this step's delivery call is for, its stored channel records
\* before and after the call, and the results the call returned
CallReminder == due.batch[due.idx + 1]
RecordBefore(channel) == reminders[CallReminder].notifications[channel]
RecordAfter(channel) == reminders'[CallReminder].notifications[channel]
ThisResult == due'.results[Len(due'.results)]

\* what one call leaves in the record of one channel: on success sent and
\* sentAt, on failure the reason, and nothing when the channel was not
\* attempted; the rest of the record is as it was
RecordReflects(channel, attempted, reasons) ==
  LET before == RecordBefore(channel)
      after  == RecordAfter(channel)
      result == ThisResult[channel]
  IN  /\ attempted /\ result.sent =>
           /\ after.sent /\ after.sentAt = now
           /\ after.error = before.error
      /\ attempted /\ ~result.sent =>
           /\ after.error = result.error /\ after.error \in reasons
           /\ after.sent = before.sent /\ after.sentAt = before.sentAt
      /\ ~attempted => after = before /\ ~result.sent /\ result.error = Null

\* C14: after a delivery call, the stored record of each attempted channel
\* shows that attempt (sent with sentAt on success, the failure reason in
\* error on failure), whatever the other channel's outcome was, and the
\* record of a channel that was not attempted is as it was before the call.
C14_ChannelRecordsIndependent ==
  [][CallMade =>
       /\ RecordReflects("webPush", ThisCall.push = 1,
                         {"push_failed", "subscription_invalid"})
       /\ ThisCall.push = 1 =>
            (ThisResult.webPush.sent <=> PushSucceeded(ThisCall))
       /\ RecordReflects("email", ThisCall.email = 1, {"email_failed"})]_vars

\* a reminder whose email was sent by an earlier cycle and whose push, the
\* only channel attempted by this cycle, failed: both records are stored
C14_Witness ==
  \E k \in 1..Len(due.sends) :
    /\ due.sends[k].push = 1 /\ due.sends[k].email = 0
    /\ ~due.results[k].webPush.sent
    /\ reminders[due.batch[k]].notifications.email.sent
    /\ reminders[due.batch[k]].notifications.webPush.error = "push_failed"

\* C15 as the specification states it: when the latest attempt on a channel
\* succeeded, the channel's stored error is empty.
C15_ErrorClearedOnSuccess ==
  \A k \in 1..Len(due.results) :
    /\ due.results[k].webPush.sent =>
         reminders[due.batch[k]].notifications.webPush.error = Undefined
    /\ due.results[k].email.sent =>
         reminders[due.batch[k]].notifications.email.error = Undefined

\* a push that has just succeeded on a reminder whose record still holds
\* the reason of an earlier failure
C15_Witness ==
  \E k \in 1..Len(due.results) :
    /\ due.results[k].webPush.sent
    /\ reminders[due.batch[k]].notifications.webPush.sent
    /\ reminders[due.batch[k]].notifications.webPush.error = "push_failed"

\* C16: a delivery call returns the outcome of both channels whatever the
\* adapters answered, a channel reports sent only if its send was made and
\* accepted, and the reminder's delivery is reported successful exactly when
\* a channel reports sent.
C16_BothOutcomesReturned ==
  \A k \in 1..Len(due.results) :
    LET result == due.results[k]
        call   == due.sends[k]
    IN  /\ result.webPush.sent <=> PushSucceeded(call)
        /\ result.webPush.error # Null <=> PushFailedSend(call)
        /\ result.email.sent => call.email = 1 /\ result.email.error = Null
        /\ result.email.error # Null => call.email = 1
        /\ call.email = 1 => result.email.sent \/ result.email.error # Null
        /\ result.success <=> result.webPush.sent \/ result.email.sent

\* a call whose push failed and whose email was accepted: reported
\* successful, with the push failure in the results
C16_Witness ==
  \E k \in 1..Len(due.results) :
    /\ due.results[k].webPush.error = "push_failed"
    /\ due.results[k].email.sent
    /\ due.results[k].success

-----------------------------------------------------------------------------
(* Cleanup on its own: a store of old and recent reminders, and the cleanup *)
(* run over it                                                              *)

\* a reminder last saved at instant t (created earlier, due tomorrow)
AgedReminder(t) ==
  Timestamped(NoDoc,
    NewReminder("u1", "Pay rent", StartInstant + MinutesPerDay, NoRecurrence,
                "manual"),
    t)

\* the instants of the last save: a minute ago, or about a month ago
SavedAt == {StartInstant - 1} \cup {AddDays(StartInstant, 0 - a) : a \in {29, 30, 31}}

\* the reminders of the store: pending and cancelled ones, completed ones
\* completed about three months ago, one snoozed a minute ago; each of them
\* shared, for a day, at its last save, or not shared
CleanupDocs ==
  LET plain ==
        {AgedReminder(t) : t \in SavedAt}
        \cup {[AgedReminder(t) EXCEPT !.status = "cancelled"] : t \in SavedAt}
        \cup {[MarkCompleted(AgedReminder(t), AddDays(StartInstant, 0 - c))
                 EXCEPT !.updatedAt = t] :
                t \in SavedAt, c \in {89, 90, 91}}
        \cup {Timestamped(NoDoc,
                SnoozeDoc(AgedReminder(StartInstant - 1),
                          DefaultSnoozeMinutes, StartInstant - 1),
                StartInstant - 1)}
  IN  plain \cup {CreateShareToken(doc, 24, doc.updatedAt) : doc \in plain}

InitCleanup ==
  /\ now = StartInstant
  /\ \E store \in [1..MaxReminders -> CleanupDocs \cup {NoDoc}] :
       reminders = [id \in RIds |-> IF id <= MaxReminders THEN store[id]
                                    ELSE NoDoc]
  /\ users = UsersOwning(reminders)
  /\ nextId = MaxReminders + 1
  /\ due = IdleDue
  /\ rec = IdleRec
  /\ due2 = IdleDue
  /\ rec2 = IdleRec
  /\ sched = Initialized

NextCleanup == CleanupExpiredData

SpecCleanup == InitCleanup /\ [][NextCleanup]_vars

\* how long ago an instant is, in whole minutes
Age(t) == now - t

\* C13 as the specification states it: a cleanup run deletes every
\* completed reminder completed more than 90 days ago and every cancelled
\* reminder last updated more than 30 days ago, and it retains the completed
\* reminders completed less than 90 days ago, the cancelled reminders
\* updated less than 30 days ago and every pending or snoozed reminder.
C13_CleanupThresholds ==
  [][\A id \in Stored :
       LET doc == reminders[id]
       IN  /\ /\ doc.status = "completed"
              /\ IsDate(doc.metadata.completedAt)
              /\ Age(doc.metadata.completedAt)
                   > CompletedRetentionDays * MinutesPerDay
              => reminders'[id] = NoDoc
           /\ /\ doc.status = "cancelled"
              /\ Age(doc.updatedAt) > CancelledRetentionDays * MinutesPerDay
              => reminders'[id] = NoDoc
           /\ /\ doc.status = "completed"
              /\ IsDate(doc.metadata.completedAt)
              /\ Age(doc.metadata.completedAt)
                   < CompletedRetentionDays * MinutesPerDay
              => reminders'[id] # NoDoc
           /\ /\ doc.status = "cancelled"
              /\ Age(doc.updatedAt) < CancelledRetentionDays * MinutesPerDay
              => reminders'[id] # NoDoc
           /\ doc.status \in {"pending", "snoozed"} => reminders'[id] # NoDoc
    ]_vars

\* a store after a cleanup run: a cancelled reminder whose updatedAt is the
\* instant of the run, its share taken back by the run
C13_Witness ==
  \E id \in Stored :
    /\ reminders[id].status = "cancelled"
    /\ reminders[id].updatedAt = now
    /\ ~reminders[id].sharing.isShared
    /\ reminders[id].metadata.source = "manual"
    /\ nextId = MaxReminders + 1

-----------------------------------------------------------------------------
(* Isolation of the deliveries of one cycle *)

\* The due cycle over several reminders, each save accepted or rejected
NextIsolation ==
  \/ Quiet /\ \E title \in Titles :
       CreateReminder("u1", title, now + 1, NoRecurrence)
  \/ Quiet /\ \E id \in RIds : Snooze(id, 1)
  \/ Quiet /\ \E sub \in Subscriptions : Subscribe("u1", sub)
  \/ MainJobTick
  \/ \E p \in {201, 500}, e \in EmailReplies : DueDeliver(p, e)
  \/ \E p \in {201, 500}, e \in EmailReplies : DueDeliverSaveFails(p, e)
  \/ DueReset
  \/ DueReturn

SpecIsolation == Init /\ [][NextIsolation]_vars

\* the i-th delivery of the run ended in the catch of the loop
Threw(run, i) == "error" \in DOMAIN run.results[i]

\* the run has left the loop of sendBulkNotifications
LoopLeft(run) == run.pc \in {"reset", "done"}

\* C17: once a cycle has left its delivery loop, sendReminderNotification
\* has been called for every reminder the scan returned, in the order of
\* the scan, whatever the replies of the channels to the other reminders
\* and whether or not their saves were accepted.
C17_DeliveryIsolated ==
  LoopLeft(due) =>
    /\ due.idx = Len(due.batch)
    /\ Len(due.results) = Len(due.batch)
    /\ Len(due.sends) = Len(due.batch)
    /\ \A i \in 1..Len(due.batch) : due.results[i].reminderId = due.batch[i]

\* a cycle of two reminders in which the save of the first was rejected and
\* the second was delivered
C17_Witness ==
  /\ due.pc = "done"
  /\ Len(due.batch) = 2
  /\ Threw(due, 1)
  /\ ~Threw(due, 2)
  /\ due.results[2].success
  /\ due.sends[2].push + due.sends[2].email > 0

-----------------------------------------------------------------------------
(* The scheduler: its three jobs, failing cycles, overlapping cycles, and
   shutdown *)

\* a catch that also stops the job whose cycle failed
CycleFailedStopsJob(s, task) ==
  [s EXCEPT !.errors = @ \cup {task}, !.jobs = @ \ {task}]

\* the service after the catch of a task has logged the error of a cycle
CycleFailed(s, task) == [s EXCEPT !.errors = @ \cup {task}]

\* the main job's cron callback when storage is unavailable:
\* findDueReminders() rejects, processDueReminders logs it and returns
MainJobTickFails ==
  /\ "main" \in sched.jobs
  /\ due.pc = "idle"
  /\ now + 1 <= StartInstant + MaxTicks
  /\ now' = now + 1
  /\ sched' = CycleFailed(Ran(sched, "main"), "main")
  /\ UNCHANGED <<rec2, due, due2, users, reminders, nextId, rec>>

\* the run is awaiting inside sendBulkNotifications
InFlight(run) == run.pc = "deliver"

\* the main job's cron callback while an earlier cycle is still in flight:
\* node-cron calls it all the same, and processDueReminders starts a scan
MainJobTickBusy ==
  /\ "main" \in sched.jobs
  /\ InFlight(due)
  /\ due2.pc = "idle"
  /\ now + 1 <= StartInstant + MaxTicks
  /\ now' = now + 1
  /\ due2' = DueScan(now + 1)
  /\ sched' = Ran(sched, "main")
  /\ UNCHANGED <<rec2, due, users, reminders, nextId, rec>>

\* triggerDueRemindersCheck() while a cycle is in flight
TriggerDueRemindersCheckBusy ==
  /\ InFlight(due)
  /\ due2.pc = "idle"
  /\ due2' = DueScan(now)
  /\ UNCHANGED <<rec2, due, sched, now, users, reminders, nextId, rec>>

\* one iteration of sendBulkNotifications in the second run
Due2Deliver(pushReply, emailReply) ==
  /\ due2.pc = "deliver"
  /\ LET step == DeliverStep(due2, pushReply, emailReply, TRUE)
     IN  /\ users' = step.users
         /\ reminders' = step.reminders
         /\ due2' = step.run
  /\ UNCHANGED <<rec2, due, sched, now, nextId, rec>>

\* the snooze reset loop of the second run
Due2Reset ==
  /\ due2.pc = "reset"
  /\ reminders' = ResetStep(due2)
  /\ due2' = [due2 EXCEPT !.pc = "done"]
  /\ UNCHANGED <<rec2, due, sched, now, users, nextId, rec>>

\* the second run returns
Due2Return ==
  /\ due2.pc = "done"
  /\ due2' = IdleDue
  /\ UNCHANGED <<rec2, due, sched, now, users, reminders, nextId, rec>>

\* the recurring job's cron callback
RecurringJobTick ==
  /\ "recurring" \in sched.jobs
  /\ rec.pc = "idle"
  /\ rec' = RecStart
  /\ sched' = Ran(sched, "recurring")
  /\ UNCHANGED <<rec2, due, due2, now, users, reminders, nextId>>

\* the recurring job's cron callback when storage is unavailable: the query
\* rejects, processRecurringReminders logs it and returns
RecurringJobTickFails ==
  /\ "recurring" \in sched.jobs
  /\ rec.pc = "idle"
  /\ sched' = CycleFailed(Ran(sched, "recurring"), "recurring")
  /\ UNCHANGED <<rec2, due, due2, now, users, reminders, nextId, rec>>

\* the cleanup job's cron callback
CleanupJobTick ==
  /\ "cleanup" \in sched.jobs
  /\ reminders' = Cleaned(reminders, now)
  /\ sched' = Ran(sched, "cleanup")
  /\ UNCHANGED <<rec2, due, due2, now, users, nextId, rec>>

\* the cleanup job's cron callback when storage is unavailable: updateMany
\* rejects, cleanupExpiredData logs it and returns
CleanupJobTickFails ==
  /\ "cleanup" \in sched.jobs
  /\ sched' = CycleFailed(Ran(sched, "cleanup"), "cleanup")
  /\ UNCHANGED <<rec2, due, due2, now, users, reminders, nextId, rec>>

\* a shutdown that forgets the jobs
ShutdownFlagOnly(s) == [s EXCEPT !.isRunning = FALSE]

\* the service after shutdown(): every job stopped and destroyed, the
\* registry cleared
ShutDown(s) == [s EXCEPT !.jobs = {}, !.isRunning = FALSE]

\* shutdown(), as gracefulShutdown calls it
Shutdown ==
  /\ sched' = ShutDown(sched)
  /\ UNCHANGED <<rec2, due, due2, now, users, reminders, nextId, rec>>

\* init()
InitService ==
  /\ sched' = IF sched.isRunning
              THEN sched
              ELSE [sched EXCEPT !.jobs = JobNames, !.isRunning = TRUE]
  /\ UNCHANGED <<rec2, due, due2, now, users, reminders, nextId, rec>>

\* gracefulShutdown after shutdown(): the connection is closed and the
\* process exits; the runs in flight are abandoned between two awaits
ProcessExit ==
  /\ ~sched.isRunning
  /\ due' = IdleDue
  /\ due2' = IdleDue
  /\ rec' = IdleRec
  /\ UNCHANGED <<rec2, sched, now, users, reminders, nextId>>

\* a minute passes while no main job is registered
ClockTick ==
  /\ "main" \notin sched.jobs
  /\ now + 1 <= StartInstant + MaxTicks
  /\ now' = now + 1
  /\ UNCHANGED <<rec2, due, due2, sched, users, reminders, nextId, rec>>

\* the recurrence of the reminder the scheduler works on
Daily ==
  [type |-> "daily", interval |-> 1, endDate |-> Unset,
   maxOccurrences |-> Unset]

\* One reminder, the three jobs with cycles that succeed or fail, ticks and
\* triggers while a cycle is in flight, shutdown and init.  Once the service
\* is shut down gracefulShutdown closes the connection, and the save of a
\* delivery in flight may reject.  At most two
\* cycles of the main job are followed at a time: the second starts while
\* the first is in flight, and no third starts before the second returned.
NextScheduler ==
  \/ Quiet /\ Stored = {} /\ \E title \in Titles :
       CreateReminder("u1", title, now + 1, Daily)
  \/ Quiet /\ \E id \in RIds : UpdateStatus(id, "completed")
  \/ due2.pc = "idle" /\ MainJobTick
  \/ MainJobTickFails
  \/ MainJobTickBusy
  \/ TriggerDueRemindersCheckBusy
  \/ DueDeliver(201, "ok")
  \/ ~sched.isRunning /\ DueDeliverSaveFails(201, "ok")
  \/ DueReset
  \/ DueReturn
  \/ Due2Deliver(201, "ok")
  \/ Due2Reset
  \/ Due2Return
  \/ RecurringJobTick
  \/ RecurringJobTickFails
  \/ RecStep
  \/ RecReturn
  \/ CleanupJobTick
  \/ CleanupJobTickFails
  \/ Shutdown
  \/ InitService
  \/ ProcessExit
  \/ ClockTick

SpecScheduler == Init /\ [][NextScheduler]_vars

-----------------------------------------------------------------------------
(* Properties of the scheduler *)

\* the task logs the error of a cycle in this step
FailsNow(task) == task \in sched'.errors /\ task \notin sched.errors

\* C18: a step in which a task logs the error of a failed cycle changes
\* neither the registry of jobs nor isRunning, and touches neither the store
\* nor any run in flight; and while the service runs, all three jobs stay
\* registered, so the failing task is called again at its next tick.
C18_FailedCycleCaught ==
  [][ /\ \A task \in JobNames :
           FailsNow(task) =>
             /\ sched'.jobs = sched.jobs
             /\ sched'.isRunning = sched.isRunning
             /\ reminders' = reminders /\ users' = users
             /\ due' = due /\ due2' = due2 /\ rec' = rec
      /\ sched'.isRunning => sched'.jobs = JobNames ]_vars

\* each of the three tasks has logged a failed cycle, the service still runs
\* its three jobs, and a later cycle of the main job is delivering
C18_Witness ==
  /\ sched.errors = JobNames
  /\ sched.isRunning
  /\ sched.jobs = JobNames
  /\ due.pc = "deliver"

\* the run has called a channel for reminder id
Delivered(run, id) ==
  \E i \in 1..run.idx :
    run.batch[i] = id /\ run.sends[i].push + run.sends[i].email > 0

\* C19: no reminder is delivered by two cycles of the main job that are
\* running at the same time.
C19_NoOverlappingCycles ==
  \A id \in RIds :
    ~(due.pc # "idle" /\ due2.pc # "idle" /\
      Delivered(due, id) /\ Delivered(due2, id))

\* a second cycle has scanned the same reminder while the first is still
\* awaiting its delivery
C19_Witness ==
  /\ InFlight(due) /\ due.idx = 0
  /\ InFlight(due2) /\ due2.idx = 0
  /\ due.batch = due2.batch

\* a stored channel record with sent set has its sentAt, and only then
RecordConsistent(r) == r.sent <=> IsDate(r.sentAt)

\* C20: while the service is shut down no job is registered and no step
\* starts a cycle of a task; every stored reminder has one of the four
\* statuses and each of its channel records is consistent, whether the run
\* in flight at shutdown completes or is abandoned.
C20_ShutdownStopsJobs ==
  /\ [](~sched.isRunning => sched.jobs = {})
  /\ [][~sched.isRunning => sched'.ran = sched.ran]_vars
  /\ [](\A id \in Stored :
          /\ reminders[id].status \in Statuses
          /\ RecordConsistent(reminders[id].notifications.webPush)
          /\ RecordConsistent(reminders[id].notifications.email))

\* the service was shut down while a delivery was in flight; the delivery
\* went on, its save was rejected by the closing connection, and the
\* reminder is stored as it was
C20_Witness ==
  /\ ~sched.isRunning
  /\ sched.jobs = {}
  /\ due.pc \in {"reset", "done"}
  /\ Len(due.batch) = 1
  /\ Threw(due, 1)
  /\ reminders[due.batch[1]] # NoDoc
  /\ reminders[due.batch[1]].status = "pending"

-----------------------------------------------------------------------------
(* The life of one reminder: its owner's requests, served at any moment of
   a due cycle, and the main job *)

NextLifecycle ==
  \/ Stored = {} /\ \E title \in Titles :
       CreateReminder("u1", title, now + 1, NoRecurrence)
  \/ \E id \in RIds, st \in Statuses : UpdateStatus(id, st)
  \/ \E id \in RIds : Snooze(id, 1)
  \/ \E id \in RIds, title \in Titles : UpdateReminder(id, title, now + 1)
  \/ MainJobTick
  \/ \E p \in {201, 500} : DueDeliver(p, "ok")
  \/ DueReset
  \/ DueReturn

SpecLifecycle == Init /\ [][NextLifecycle]_vars

\* reminder id is stored before and after the step
Kept(id) == reminders[id] # NoDoc /\ reminders'[id] # NoDoc

\* C21: every step that changes the status of a stored reminder makes one
\* of the listed transitions; in particular a completed or cancelled
\* reminder never changes status again.
C21_OnlyListedTransitions ==
  [][LET listed == { <<"pending", "completed">>, <<"pending", "snoozed">>,
                     <<"snoozed", "pending">>, <<"pending", "cancelled">>,
                     <<"snoozed", "cancelled">> }
     IN  \A id \in RIds :
           Kept(id) =>
             \/ reminders'[id].status = reminders[id].status
             \/ <<reminders[id].status, reminders'[id].status>> \in listed]_vars

\* a reminder has reached a terminal status
C21_Witness ==
  \E id \in Stored : reminders[id].status \in {"completed", "cancelled"}

\* C22: a step that serves a snooze request raises the reminder's
\* snoozeCount by exactly one, and no other step changes it: neither the
\* snooze reset, nor a delivery, nor a status change, nor an edit.
C22_SnoozeCountMonotone ==
  [][\A id \in RIds :
       Kept(id) =>
         IF Snooze(id, 1)
         THEN reminders'[id].metadata.snoozeCount =
                reminders[id].metadata.snoozeCount + 1
         ELSE reminders'[id].metadata.snoozeCount =
                reminders[id].metadata.snoozeCount]_vars

\* a reminder that was snoozed has been returned to pending by the reset of
\* a cycle, and still counts its snooze
C22_Witness ==
  \E id \in Stored :
    /\ reminders[id].status = "pending"
    /\ reminders[id].metadata.snoozeCount = MaxSnoozes
    /\ reminders[id].metadata.snoozeUntil = Unset
    /\ due.pc = "done"
    /\ Len(due.batch) = 1 /\ due.batch[1] = id

-----------------------------------------------------------------------------
(* Delivery across cycles: failures, retries and repeated sends *)

\* what the push service may do to one send: accept it, reject it as gone,
\* reject it otherwise, or fail without a status
RetryPushReplies == {201, 410, 500, NoStatus}

\* One reminder of a user who may subscribe, over several cycles
NextRetry ==
  \/ Quiet /\ Stored = {} /\ \E title \in Titles :
       CreateReminder("u1", title, now + 1, NoRecurrence)
  \/ Quiet /\ \E sub \in Subscriptions : Subscribe("u1", sub)
  \/ MainJobTick
  \/ \E p \in RetryPushReplies, e \in EmailReplies : DueDeliver(p, e)
  \/ DueReset
  \/ DueReturn

SpecRetry == Init /\ [][NextRetry]_vars

\* the push send of this step's call failed, and not as gone
PushFailedNotGone ==
  /\ CallMade
  /\ PushFailedSend(ThisCall)
  /\ ThisCall.pushReply \notin {404, 410}

\* C23: a push send that fails otherwise than as gone, a send that throws
\* without a status included, leaves push_failed in the reminder's webPush
\* error and the user's stored subscription as it was; and every delivery
\* call for a user with push enabled and a stored subscription attempts the
\* push with that subscription, so the next cycle tries again.
C23_PushFailureKeepsSubscription ==
  [][/\ PushFailedNotGone =>
          /\ RecordAfter("webPush").error = "push_failed"
          /\ SubscriptionAfter(CallUser) = StoredSubscription(CallUser)
          /\ Truthy(SubscriptionAfter(CallUser))
     /\ CallMade /\ users[CallUser].notifications.webPush.enabled
                 /\ Truthy(StoredSubscription(CallUser)) =>
          /\ ThisCall.push = 1
          /\ ThisCall.user.notifications.webPush.subscription =
               StoredSubscription(CallUser)]_vars

\* a cycle attempts the push for a reminder that carries the push_failed of
\* an earlier cycle, and the send throws without a status
C23_Witness ==
  /\ due.pc = "done"
  /\ Len(due.sends) = 1
  /\ due.sends[1].push = 1
  /\ due.sends[1].pushReply = NoStatus
  /\ now = StartInstant + 2
  /\ reminders[due.batch[1]].notifications.webPush.error = "push_failed"
  /\ reminders[due.batch[1]].updatedAt = StartInstant + 1
  /\ Truthy(users["u1"].notifications.webPush.subscription)

\* this step's call attempted a channel and no channel sent
AllAttemptsFailed ==
  /\ CallMade
  /\ ThisCall.push + ThisCall.email > 0
  /\ ~ThisResult.success

\* C24: a delivery call for a pending reminder in which every attempted
\* channel fails leaves the reminder stored and pending, with the error of
\* each attempted channel in its record, and still matching the due scan.
C24_FailedDeliveryStaysDue ==
  [][AllAttemptsFailed /\ reminders[CallReminder].status = "pending" =>
       /\ reminders'[CallReminder] # NoDoc
       /\ reminders'[CallReminder].status = "pending"
       /\ ThisCall.push = 1 =>
            RecordAfter("webPush").error \in
              {"push_failed", "subscription_invalid"}
       /\ ThisCall.email = 1 => RecordAfter("email").error = "email_failed"
       /\ DueFilter(reminders'[CallReminder], now)]_vars

\* a second cycle has scanned again the reminder that an earlier cycle
\* failed to deliver on both channels
C24_Witness ==
  /\ due.pc = "deliver"
  /\ due.idx = 0
  /\ due.docs[1].status = "pending"
  /\ due.docs[1].notifications.webPush.error = "push_failed"
  /\ due.docs[1].notifications.email.error = "email_failed"
  /\ ~due.docs[1].notifications.webPush.sent
  /\ ~due.docs[1].notifications.email.sent

\* C25: a delivery call sends on no channel whose stored record already
\* says sent.
C25_NoResendAfterSent ==
  [][CallMade =>
       /\ RecordBefore("webPush").sent => ThisCall.push = 0
       /\ RecordBefore("email").sent => ThisCall.email = 0]_vars

\* a cycle has scanned a reminder whose email was sent by an earlier cycle
C25_Witness ==
  /\ due.pc = "deliver"
  /\ due.idx = 0
  /\ due.docs[1].notifications.email.sent
  /\ due.docs[1].status = "pending"

\* this step is a step of the due cycle, not a request of the owner
CycleStep == due' # due

\* C26: no step of a due cycle changes the status of a reminder that its
\* owner has completed or cancelled, whenever the owner's request was
\* served.
C26_OwnerStatusKept ==
  [][\A id \in RIds :
       /\ Kept(id)
       /\ CycleStep
       /\ reminders[id].status \in {"completed", "cancelled"}
       => reminders'[id].status = reminders[id].status]_vars

\* the owner has cancelled a reminder that a cycle in flight scanned as a
\* snoozed reminder whose snooze had elapsed
C26_Witness ==
  /\ due.pc = "reset"
  /\ Len(due.batch) = 1
  /\ SnoozeElapsed(due.docs[1], now)
  /\ reminders[due.batch[1]] # NoDoc
  /\ reminders[due.batch[1]].status = "cancelled"

\* C28: every stored reminder with status snoozed has a snoozeUntil.
C28_SnoozedHasSnoozeUntil ==
  \A id \in Stored :
    reminders[id].status = "snoozed" =>
      IsDate(reminders[id].metadata.snoozeUntil)

\* a reminder snoozed through the snooze route: it has its snoozeUntil
C28_Witness ==
  \E id \in Stored :
    /\ reminders[id].status = "snoozed"
    /\ reminders[id].metadata.snoozeUntil = now + 1
    /\ reminders[id].metadata.snoozeCount = 1

-----------------------------------------------------------------------------
(* Two runs of processRecurringReminders over the same parent, one await at
   a time *)

\* the run is awaiting inside its loop
RecInFlight(run) == run.pc \in {"loop", "save"}

\* the next iteration of the run up to the answer of findOne: the engine
\* and the duplicate check
CheckStep(run) ==
  LET i      == run.idx + 1
      parent == run.docs[i]
      next   == GenerateNextOccurrence(parent)
      dup    == next # Unset /\
                FindExisting(parent.user, parent.title, next,
                             parent.recurrence.type) # {}
  IN  IF next = Unset \/ dup
      THEN [run EXCEPT
              !.pc = IF i = Len(run.batch) THEN "done" ELSE "loop",
              !.idx = i,
              !.skipped = @ + 1,
              !.log = Append(@, [next |-> next, duplicate |-> dup,
                                 created |-> FALSE])]
      ELSE [run EXCEPT !.pc = "save"]

\* the rest of the iteration: nextReminder.save(), which throws when the
\* schema rejects the document
SaveStep(run) ==
  LET i      == run.idx + 1
      parent == run.docs[i]
      next   == GenerateNextOccurrence(parent)
      doc    == NextReminder(parent, next)
      saves  == ValidReminder(doc)
  IN  [ saves |-> saves,
        reminders |->
          IF saves /\ nextId \in RIds
          THEN [reminders EXCEPT ![nextId] = Timestamped(NoDoc, doc, now)]
          ELSE reminders,
        nextId |-> IF saves THEN nextId + 1 ELSE nextId,
        users |-> IF saves THEN PreSave(users, doc) ELSE users,
        run |->
          [run EXCEPT
             !.pc = IF i = Len(run.batch) THEN "done" ELSE "loop",
             !.idx = i,
             !.created = IF saves THEN @ + 1 ELSE @,
             !.skipped = IF saves THEN @ ELSE @ + 1,
             !.log = Append(@, [next |-> next, duplicate |-> FALSE,
                                created |-> saves])] ]

\* the first run: engine and duplicate check of its next iteration
RecCheck ==
  /\ rec.pc = "loop"
  /\ rec' = CheckStep(rec)
  /\ UNCHANGED <<rec2, due, due2, sched, now, users, reminders, nextId>>

\* the first run: the save of its iteration
RecSave ==
  /\ rec.pc = "save"
  /\ LET step == SaveStep(rec)
     IN  /\ step.saves => nextId \in RIds
         /\ reminders' = step.reminders
         /\ nextId' = step.nextId
         /\ users' = step.users
         /\ rec' = step.run
  /\ UNCHANGED <<rec2, due, due2, sched, now>>

\* triggerRecurringRemindersCheck(), or the recurring job's next callback,
\* while a run is in flight: a second run starts with its query
Rec2Scan ==
  /\ RecInFlight(rec)
  /\ rec2.pc = "idle"
  /\ rec2' = RecStart
  /\ UNCHANGED <<rec, due, due2, sched, now, users, reminders, nextId>>

\* the second run: engine and duplicate check of its next iteration
Rec2Check ==
  /\ rec2.pc = "loop"
  /\ rec2' = CheckStep(rec2)
  /\ UNCHANGED <<rec, due, due2, sched, now, users, reminders, nextId>>

\* the second run: the save of its iteration
Rec2Save ==
  /\ rec2.pc = "save"
  /\ LET step == SaveStep(rec2)
     IN  /\ step.saves => nextId \in RIds
         /\ reminders' = step.reminders
         /\ nextId' = step.nextId
         /\ users' = step.users
         /\ rec2' = step.run
  /\ UNCHANGED <<rec, due, due2, sched, now>>

\* the second run returns
Rec2Return ==
  /\ rec2.pc = "done"
  /\ rec2' = IdleRec
  /\ UNCHANGED <<rec, due, due2, sched, now, users, reminders, nextId>>

\* A completed parent and two runs of the recurring job: the second starts
\* while the first is in flight, and no third before the second returned
NextOverlap ==
  \/ rec2.pc = "idle" /\ RecScan
  \/ RecCheck
  \/ RecSave
  \/ RecReturn
  \/ Rec2Scan
  \/ Rec2Check
  \/ Rec2Save
  \/ Rec2Return

SpecOverlap == InitEngine /\ [][NextOverlap]_vars

\* C27: for every stored completed recurring parent, at most one stored
\* reminder has the parent's user, title and recurrence type and the
\* scheduledTime the engine computes for the parent, however two runs of
\* recurrence processing interleave.
C27_AtMostOneOccurrence ==
  \A id \in Stored :
    LET parent == reminders[id]
        next   == GenerateNextOccurrence(parent)
    IN  RecurringFilter(parent, now) /\ next # Unset =>
          Cardinality(FindExisting(parent.user, parent.title, next,
                                   parent.recurrence.type)) <= 1

\* two overlapping runs have both passed the duplicate check for the same
\* parent and both have been through their save
C27_Witness ==
  /\ rec.pc = "done" /\ rec2.pc = "done"
  /\ Len(rec.log) = 1 /\ Len(rec2.log) = 1
  /\ rec.batch = rec2.batch
  /\ rec.log[1].next # Unset
  /\ rec.log[1].next = rec2.log[1].next
  /\ ~rec.log[1].duplicate /\ ~rec2.log[1].duplicate

-----------------------------------------------------------------------------
(* The registry of jobs: init, stopJob, scheduleCustomJob, shutdown *)

\* the names a caller gives to scheduleCustomJob
CustomNames == {"custom"}

\* stopJob(name): the job is stopped, destroyed and deleted from the map, if
\* it is there; isRunning is left as it is
StopJob(name) ==
  /\ sched' = [sched EXCEPT !.jobs = @ \ {name}]
  /\ UNCHANGED <<rec2, due, due2, now, users, reminders, nextId, rec>>

\* scheduleCustomJob(name, ...): a job of that name is stopped first, then
\* the new one is set and started
ScheduleCustomJob(name) ==
  /\ sched' = [sched EXCEPT !.jobs = (@ \ {name}) \cup {name}]
  /\ UNCHANGED <<rec2, due, due2, now, users, reminders, nextId, rec>>

\* getStatus(): isRunning, the number of jobs and the names in the map
GetStatus ==
  [isRunning |-> sched.isRunning,
   totalJobs |-> Cardinality(sched.jobs),
   jobs |-> sched.jobs]

\* The service object under its own methods, with the callbacks of the jobs
\* that are registered (the store is empty)
NextRegistry ==
  \/ InitService
  \/ Shutdown
  \/ \E name \in JobNames \cup CustomNames : StopJob(name)
  \/ \E name \in CustomNames : ScheduleCustomJob(name)
  \/ MainJobTick
  \/ DueReturn
  \/ ClockTick
  \/ RecurringJobTick
  \/ RecReturn
  \/ CleanupJobTick

SpecRegistry == Init /\ [][NextRegistry]_vars

\* C29: whenever getStatus reports isRunning the three tasks are in the
\* registry, and an init() while running adds no job.
C29_RunningMeansAllJobs ==
  /\ [](GetStatus.isRunning => JobNames \subseteq GetStatus.jobs)
  /\ [][sched.isRunning /\ InitService => sched'.jobs = sched.jobs]_vars

\* the service runs its three jobs and a custom one
C29_Witness ==
  /\ GetStatus.isRunning
  /\ GetStatus.totalJobs = 4
  /\ JobNames \subseteq GetStatus.jobs

-----------------------------------------------------------------------------
(* The owner's count of reminders: creations, deletions and cleanup *)

\* A store of reminders of several ages, with imports of the shared ones,
\* deletions by the owner and runs of the cleanup
NextAnalytics ==
  \/ \E u \in Users, id \in RIds : ImportSharedReminder(u, id)
  \/ \E id \in RIds : DeleteReminder(id)
  \/ CleanupExpiredData

SpecAnalytics == InitCleanup /\ [][NextAnalytics]_vars

\* the reminders of user u that are stored
RemindersOf(u) == {id \in Stored : reminders[id].user = u}

\* C30: each user's analytics.totalReminders is the number of that user's
\* stored reminders.
C30_TotalRemindersCounts ==
  \A u \in Users :
    users[u].analytics.totalReminders = Cardinality(RemindersOf(u))

\* a user has imported a shared reminder and its owner has deleted the
\* original: both counts are those of the store
C30_Witness ==
  /\ nextId = MaxReminders + 2
  /\ reminders[nextId - 1] # NoDoc
  /\ reminders[nextId - 1].user = "u2"
  /\ users["u2"].analytics.totalReminders = 1
  /\ users["u1"].analytics.totalReminders = 0
  /\ RemindersOf("u1") = {}

====
